---- MODULE Spec2Model ----
(***************************************************************************)
(* A model of assignment1_producer_consumer: the BlockingQueue (a deque    *)
(* guarded by one lock with two condition variables), the Producer and     *)
(* Consumer threads that use it, and threads that call the queue's API     *)
(* directly.                                                               *)
(*                                                                         *)
(* Every method of BlockingQueue runs under self._lock, so a critical      *)
(* section (from acquiring the lock to releasing it, either at the end of  *)
(* the with-block or inside Condition.wait) is one atomic action.  A       *)
(* thread that waits is suspended outside the lock; it is woken by a       *)
(* notify or by the expiry of its timeout, and in both cases has to take   *)
(* the lock again (Resume) before it continues.                            *)
(***************************************************************************)
EXTENDS Integers, Sequences, FiniteSets, Bags, TLC

\* ------------------------------------------------------------------ bounds
MaxCapacity  == 2
NumCallers   == 2
MaxAdded     == 3
MaxBlocked   == 2
NumProducers == 2
NumConsumers == 2
SourceLen    == 2
MaxTasks     == 3
MaxStops     == 1
MaxAppends   == 2
NumBadCapacities == 2

\* ------------------------------------------------------------- constants
None == 0

\* The thread that runs the program; it calls only methods that never wait.
Main      == 0
\* Threads that call put and get directly.
Callers   == 1..NumCallers
Producers == (NumCallers + 1)..(NumCallers + NumProducers)
Consumers == (NumCallers + NumProducers + 1)..(NumCallers + NumProducers + NumConsumers)
Tasks     == Producers \cup Consumers
Threads   == Callers \cup Tasks
Timeouts  == {"none", "timed"}

\* The source of producer p: SourceLen items, no item in two sources.
Source(p) == [i \in 1..SourceLen |-> (p - NumCallers - 1) * SourceLen + i]

VARIABLES
    capacity,          \* self._capacity
    queue,             \* self._queue
    shutdown,          \* self._shutdown
    added,             \* self._total_items_added
    removed,           \* self._total_items_removed
    blockedPuts,       \* self._total_blocked_puts
    blockedGets,       \* self._total_blocked_gets
    notFullWaiters,    \* self._not_full._waiters
    notEmptyWaiters,   \* self._not_empty._waiters
    qs,                \* per thread: where it is in a put/get call
    call,              \* per thread: the call in progress (op, item, timeout)
    ret,               \* what the last step returned and to whom (NoRet: nothing)
    cleared,           \* history: clear() has been called
    putLog,            \* history, per producer: the items its puts appended, in order
    loc,               \* per task: where it is in run()
    running,           \* per task: self._running
    stopEvent,         \* per task: self._stop_event
    srcPos,            \* per producer: how many items its iterator has yielded
    produced,          \* per producer: self._items_produced
    consumed,          \* per consumer: self._items_consumed
    dest,              \* per consumer: self._destination
    res,               \* per task: the result of its last put/get, until it is read
    ctimeout,          \* the consumers' self._timeout ("mixed": see TimeoutOf)
    sinkItems,         \* DestinationContainer._items (or a destination list)
    sinkCalls,         \* history, per thread: the items its append calls were given
    got,               \* the list get_all()/get_results() returned, as the caller holds it
    qLock,             \* BlockingQueue._lock: <<>> when free, <<t>> when thread t holds it
    sLock,             \* DestinationContainer._lock, likewise
    lk                 \* per thread: the locking call it is in, and where in it

queueVars == <<capacity, queue, shutdown, added, removed, blockedPuts, blockedGets>>
waitVars  == <<notFullWaiters, notEmptyWaiters>>
histVars  == <<cleared, putLog>>
sinkVars  == <<sinkItems, sinkCalls, got>>
lockVars  == <<qLock, sLock, lk>>
taskVars  == <<loc, running, stopEvent, srcPos, produced, consumed, dest, res, ctimeout, sinkVars, lockVars>>
vars == <<capacity, queue, shutdown, added, removed, blockedPuts, blockedGets,
          notFullWaiters, notEmptyWaiters, qs, call, ret, cleared, putLog,
          loc, running, stopEvent, srcPos, produced, consumed, dest, res, ctimeout,
          sinkItems, sinkCalls, got, qLock, sLock, lk>>

Min(a, b) == IF a < b THEN a ELSE b

NoCall  == [op |-> "none", item |-> None, tmo |-> "none"]
NoRes   == [ok |-> FALSE, item |-> None]
NoStats == <<>>
\* No list has been returned; a returned list is the sink's own list object
\* (ref "same") or another object (ref "copy") with its own items.
NoList  == [ref |-> "none", by |-> "none", items |-> <<>>, mutated |-> FALSE]
NoRet   == [t |-> Main, op |-> "none", tmo |-> "none", ok |-> FALSE, item |-> None,
            sd |-> FALSE, blocked |-> FALSE, stats |-> NoStats]

\* What a call hands back to thread t, with the timeout it was called with.
\* blocked is the local variable `blocked` at the return; sd tells whether the
\* queue was shut down when the call was issued: a call that blocked was
\* issued before the shutdown (the loop only waits while not shut down), and
\* one that did not block returns in the critical section it was issued in.
Result(t, op, tmo, ok, item, blocked) ==
    IF t \in Tasks
    THEN NoRet      \* a task holds its result in res
    ELSE [t |-> t, op |-> op, tmo |-> tmo, ok |-> ok, item |-> item,
          sd |-> (~blocked /\ shutdown), blocked |-> blocked, stats |-> NoStats]

\* -------------------------------------------------- threading.Condition
\* Every waiter of the deque is released.
Woken_All(ws, n) == {ws[i] : i \in 1..Len(ws)}

\* notify(n) releases the first n waiters of the deque and removes them.
Woken(ws, n) == {ws[i] : i \in 1..Min(n, Len(ws))}

\* Every waiter is removed from the deque.
Rest_All(ws, n) == <<>>

Rest(ws, n)  == SubSeq(ws, Min(n, Len(ws)) + 1, Len(ws))

Wake_Nobody(q, W) == q

\* A released waiter that is still inside its acquire wakes as notified; one
\* whose timed acquire has already failed stays timed out.
Wake(q, W) == [t \in DOMAIN q |-> IF t \in W /\ q[t] = "waiting" THEN "notified" ELSE q[t]]

Without(ws, t) == SelectSeq(ws, LAMBDA x : x # t)

\* ------------------------------------------------------- BlockingQueue
PutMustWait_OffByOne == Len(queue) > capacity /\ ~shutdown

PutMustWait_IgnoresShutdown == Len(queue) >= capacity

\* put(): the condition of the while loop
PutMustWait == Len(queue) >= capacity /\ ~shutdown

PutRejected_OnlyWhenFull == shutdown /\ Len(queue) >= capacity

\* put(): the test after the loop that makes it return False
PutRejected == shutdown

GetMustWait_IgnoresShutdown == Len(queue) = 0

\* get(): the condition of the while loop
GetMustWait == Len(queue) = 0 /\ ~shutdown

GetFails_ShutdownOnly == shutdown

\* get(): the test after the loop that makes it return (False, None)
GetFails == shutdown /\ Len(queue) = 0

Newest(q) == q[Len(q)]

\* get(): the item popleft() returns
Oldest(q) == Head(q)

\* is_shutdown()
IsShutdown == shutdown

IsEmpty_Always == TRUE

\* is_empty()
IsEmpty == Len(queue) = 0

\* total_items_added read before the put that has just returned, the rest after
Statistics_Torn ==
    <<added - (IF ret.op = "put" /\ ret.ok THEN 1 ELSE 0),
      removed, blockedPuts, blockedGets, Len(queue), capacity>>

\* get_statistics(): the dictionary, as the tuple of its six values
Statistics == <<added, removed, blockedPuts, blockedGets, Len(queue), capacity>>

\* No thread is inside a call that takes a lock.
NoLockCall == [at |-> "idle", obj |-> "none", op |-> "none", todo |-> <<>>,
               outer |-> <<>>, made |-> FALSE]

\* threading.Lock() of the queue and of the sink: both free
LockInit ==
    /\ qLock = <<>>
    /\ sLock = <<>>
    /\ lk = [t \in Callers |-> NoLockCall]

\* DestinationContainer.__init__
SinkInit ==
    /\ LockInit
    /\ sinkItems = <<>>
    /\ sinkCalls = [t \in Callers |-> <<>>]
    /\ got = NoList

QueueInit ==
    /\ SinkInit
    /\ capacity \in 1..MaxCapacity
    /\ queue = <<>>
    /\ shutdown = FALSE
    /\ added = 0
    /\ removed = 0
    /\ blockedPuts = 0
    /\ blockedGets = 0
    /\ notFullWaiters = <<>>
    /\ notEmptyWaiters = <<>>
    /\ qs = [t \in Threads |-> "out"]
    /\ call = [t \in Threads |-> NoCall]
    /\ ret = NoRet
    /\ cleared = FALSE
    /\ putLog = [p \in Producers |-> <<>>]
    /\ running = [t \in Tasks |-> FALSE]
    /\ stopEvent = [t \in Tasks |-> FALSE]
    /\ srcPos = [p \in Producers |-> 0]
    /\ produced = [p \in Producers |-> 0]
    /\ consumed = [c \in Consumers |-> 0]
    /\ dest = [c \in Consumers |-> <<>>]
    /\ res = [t \in Tasks |-> NoRes]

\* A queue that only callers use: no Producer or Consumer was created.
Init ==
    /\ QueueInit
    /\ loc = [t \in Tasks |-> "absent"]
    /\ ctimeout = "none"

\* A queue with the first np producers and the first nc consumers created on
\* it, none started, all consumers with the same timeout.
PipeInit ==
    /\ QueueInit
    /\ \E np \in 1..NumProducers, nc \in 1..NumConsumers :
          /\ np + nc <= MaxTasks
          /\ loc = [t \in Tasks |->
                     IF \/ t \in Producers /\ t - NumCallers <= np
                        \/ t \in Consumers /\ t - NumCallers - NumProducers <= nc
                     THEN "idle" ELSE "absent"]
    /\ ctimeout \in Timeouts

\* The result of a put/get as the task that called it holds it.
Deliver(t, ok, item) ==
    IF t \in Tasks THEN [res EXCEPT ![t] = [ok |-> ok, item |-> item]] ELSE res

\* put(), from the test of the while loop on, with the lock held.
PutSection(t, c, blocked) ==
    IF PutMustWait
    THEN /\ blockedPuts' = IF blocked THEN blockedPuts ELSE blockedPuts + 1
         /\ notFullWaiters' = Append(notFullWaiters, t)
         /\ qs' = [qs EXCEPT ![t] = "waiting"]
         /\ call' = [call EXCEPT ![t] = c]
         /\ ret' = NoRet
         /\ UNCHANGED <<capacity, queue, shutdown, added, removed, blockedGets,
                        notEmptyWaiters, putLog, res>>
    ELSE IF PutRejected
    THEN /\ qs' = [qs EXCEPT ![t] = "out"]
         /\ call' = [call EXCEPT ![t] = NoCall]
         /\ ret' = Result(t, "put", c.tmo, FALSE, None, blocked)
         /\ res' = Deliver(t, FALSE, None)
         /\ UNCHANGED <<queueVars, waitVars, putLog>>
    ELSE /\ queue' = Append(queue, c.item)
         /\ putLog' = IF t \in Producers THEN [putLog EXCEPT ![t] = Append(@, c.item)]
                                           ELSE putLog
         /\ added' = added + 1
         /\ notEmptyWaiters' = Rest(notEmptyWaiters, 1)
         /\ qs' = [Wake(qs, Woken(notEmptyWaiters, 1)) EXCEPT ![t] = "out"]
         /\ call' = [call EXCEPT ![t] = NoCall]
         /\ ret' = Result(t, "put", c.tmo, TRUE, None, blocked)
         /\ res' = Deliver(t, TRUE, None)
         /\ UNCHANGED <<capacity, shutdown, removed, blockedPuts, blockedGets,
                        notFullWaiters>>

\* get(), from the test of the while loop on, with the lock held.
GetSection(t, c, blocked) ==
    IF GetMustWait
    THEN /\ blockedGets' = IF blocked THEN blockedGets ELSE blockedGets + 1
         /\ notEmptyWaiters' = Append(notEmptyWaiters, t)
         /\ qs' = [qs EXCEPT ![t] = "waiting"]
         /\ call' = [call EXCEPT ![t] = c]
         /\ ret' = NoRet
         /\ UNCHANGED <<capacity, queue, shutdown, added, removed, blockedPuts,
                        notFullWaiters, putLog, res>>
    ELSE IF GetFails
    THEN /\ qs' = [qs EXCEPT ![t] = "out"]
         /\ call' = [call EXCEPT ![t] = NoCall]
         /\ ret' = Result(t, "get", c.tmo, FALSE, None, blocked)
         /\ res' = Deliver(t, FALSE, None)
         /\ UNCHANGED <<queueVars, waitVars, putLog>>
    ELSE /\ queue' = Tail(queue)
         /\ removed' = removed + 1
         /\ notFullWaiters' = Rest(notFullWaiters, 1)
         /\ qs' = [Wake(qs, Woken(notFullWaiters, 1)) EXCEPT ![t] = "out"]
         /\ call' = [call EXCEPT ![t] = NoCall]
         /\ ret' = Result(t, "get", c.tmo, TRUE, Oldest(queue), blocked)
         /\ res' = Deliver(t, TRUE, Oldest(queue))
         /\ UNCHANGED <<capacity, shutdown, added, blockedPuts, blockedGets,
                        notEmptyWaiters, putLog>>

\* A call that timed out is counted as a removal.
TimedOutSection_CountsRemoved(t) ==
    /\ notFullWaiters' = Without(notFullWaiters, t)
    /\ notEmptyWaiters' = Without(notEmptyWaiters, t)
    /\ qs' = [qs EXCEPT ![t] = "out"]
    /\ call' = [call EXCEPT ![t] = NoCall]
    /\ ret' = Result(t, call[t].op, call[t].tmo, FALSE, None, TRUE)
    /\ res' = Deliver(t, FALSE, None)
    /\ removed' = removed + 1
    /\ UNCHANGED <<capacity, queue, shutdown, added, blockedPuts, blockedGets, putLog>>

TimedOutSection_TestsAgain(t) ==
    IF call[t].op = "put" THEN PutSection(t, call[t], TRUE)
                          ELSE GetSection(t, call[t], TRUE)

\* wait() returns False: the thread leaves the waiters deque if it is still
\* in it, and put/get return False / (False, None).
TimedOutSection(t) ==
    /\ notFullWaiters' = Without(notFullWaiters, t)
    /\ notEmptyWaiters' = Without(notEmptyWaiters, t)
    /\ qs' = [qs EXCEPT ![t] = "out"]
    /\ call' = [call EXCEPT ![t] = NoCall]
    /\ ret' = Result(t, call[t].op, call[t].tmo, FALSE, None, TRUE)
    /\ res' = Deliver(t, FALSE, None)
    /\ UNCHANGED <<queueVars, putLog>>

ShutdownSection_NotifyOne ==
    /\ shutdown' = TRUE
    /\ notFullWaiters' = Rest(notFullWaiters, 1)
    /\ notEmptyWaiters' = Rest(notEmptyWaiters, 1)
    /\ qs' = Wake(qs, Woken(notFullWaiters, 1) \cup Woken(notEmptyWaiters, 1))
    /\ UNCHANGED <<capacity, queue, added, removed, blockedPuts, blockedGets>>

\* shutdown()
ShutdownSection ==
    /\ shutdown' = TRUE
    /\ notFullWaiters' = Rest(notFullWaiters, Len(notFullWaiters))
    /\ notEmptyWaiters' = Rest(notEmptyWaiters, Len(notEmptyWaiters))
    /\ qs' = Wake(qs, Woken(notFullWaiters, Len(notFullWaiters))
                        \cup Woken(notEmptyWaiters, Len(notEmptyWaiters)))
    /\ UNCHANGED <<capacity, queue, added, removed, blockedPuts, blockedGets>>

\* clear() counts the items it drops as removed.
ClearSection_CountsRemoved ==
    /\ queue' = <<>>
    /\ removed' = removed + Len(queue)
    /\ notFullWaiters' = Rest(notFullWaiters, Len(notFullWaiters))
    /\ qs' = Wake(qs, Woken(notFullWaiters, Len(notFullWaiters)))
    /\ UNCHANGED <<capacity, shutdown, added, blockedPuts, blockedGets,
                   notEmptyWaiters>>

ClearSection_Resets ==
    /\ queue' = <<>>
    /\ shutdown' = FALSE
    /\ notFullWaiters' = Rest(notFullWaiters, Len(notFullWaiters))
    /\ qs' = Wake(qs, Woken(notFullWaiters, Len(notFullWaiters)))
    /\ UNCHANGED <<capacity, added, removed, blockedPuts, blockedGets,
                   notEmptyWaiters>>

ClearSection_NotifyOne ==
    /\ queue' = <<>>
    /\ notFullWaiters' = Rest(notFullWaiters, 1)
    /\ qs' = Wake(qs, Woken(notFullWaiters, 1))
    /\ UNCHANGED <<capacity, shutdown, added, removed, blockedPuts, blockedGets,
                   notEmptyWaiters>>

\* clear()
ClearSection ==
    /\ queue' = <<>>
    /\ notFullWaiters' = Rest(notFullWaiters, Len(notFullWaiters))
    /\ qs' = Wake(qs, Woken(notFullWaiters, Len(notFullWaiters)))
    /\ UNCHANGED <<capacity, shutdown, added, removed, blockedPuts, blockedGets,
                   notEmptyWaiters>>

\* ------------------------------------------------- calls of the queue's API
otherTaskVars == <<loc, running, stopEvent, srcPos, produced, consumed, dest, ctimeout, sinkVars, lockVars>>

\* The bound of the blocked counters: a call that has to wait is issued only
\* while they are below MaxBlocked (one more where the consumers' timeouts
\* differ, so that two consumers and a producer can each wait once).
MayBlock(mustWait) ==
    mustWait => blockedPuts + blockedGets <
                   (IF ctimeout = "mixed" THEN MaxBlocked + 1 ELSE MaxBlocked)

\* A call of put(item, timeout) up to its return or its first wait. A caller
\* puts items that carry its own number.
PutCall(t, tmo) ==
    /\ qs[t] = "out"
    /\ added < MaxAdded
    /\ MayBlock(PutMustWait)
    /\ PutSection(t, [op |-> "put", item |-> t, tmo |-> tmo], FALSE)
    /\ UNCHANGED <<cleared, otherTaskVars>>

\* A call of get(timeout) up to its return or its first wait.
GetCall(t, tmo) ==
    /\ qs[t] = "out"
    /\ MayBlock(GetMustWait)
    /\ GetSection(t, [op |-> "get", item |-> None, tmo |-> tmo], FALSE)
    /\ UNCHANGED <<cleared, otherTaskVars>>

\* The timed acquire of the waiter never runs out.
Timeout_Never(t) ==
    /\ FALSE
    /\ qs[t] = "waiting"
    /\ UNCHANGED vars

\* The timed acquire of the waiter lock fails: wait() is about to return
\* False, but the thread is still in the waiters deque until it holds the lock.
Timeout(t) ==
    /\ qs[t] = "waiting"
    /\ call[t].tmo # "none"
    /\ qs' = [qs EXCEPT ![t] = "timedout"]
    /\ ret' = NoRet
    /\ UNCHANGED <<queueVars, waitVars, call, histVars, taskVars>>

\* The wait is an if, not a loop: a woken get goes on to popleft without
\* testing the buffer again.
Resume_NoRecheck(t) ==
    /\ \/ /\ qs[t] = "timedout"
          /\ TimedOutSection(t)
       \/ /\ qs[t] = "notified"
          /\ call[t].op = "put"
          /\ PutSection(t, call[t], TRUE)
       \/ /\ qs[t] = "notified"
          /\ call[t].op = "get"
          /\ ~GetMustWait
          /\ GetSection(t, call[t], TRUE)
       \/ /\ qs[t] = "notified"
          /\ call[t].op = "get"
          /\ GetMustWait
          /\ queue' = <<>>
          /\ removed' = removed + 1
          /\ notFullWaiters' = Rest(notFullWaiters, 1)
          /\ qs' = [Wake(qs, Woken(notFullWaiters, 1)) EXCEPT ![t] = "out"]
          /\ call' = [call EXCEPT ![t] = NoCall]
          /\ ret' = Result(t, "get", call[t].tmo, TRUE, None, TRUE)
          /\ res' = Deliver(t, TRUE, None)
          /\ UNCHANGED <<capacity, shutdown, added, blockedPuts, blockedGets,
                         notEmptyWaiters, putLog>>
    /\ UNCHANGED <<cleared, otherTaskVars>>

\* wait() takes the lock again and returns; the caller returns False on a
\* timeout and otherwise tests its loop condition again.
Resume(t) ==
    /\ \/ /\ qs[t] = "timedout"
          /\ TimedOutSection(t)
       \/ /\ qs[t] = "notified"
          /\ call[t].op = "put"
          /\ PutSection(t, call[t], TRUE)
       \/ /\ qs[t] = "notified"
          /\ call[t].op = "get"
          /\ GetSection(t, call[t], TRUE)
    /\ UNCHANGED <<cleared, otherTaskVars>>

ShutdownCall ==
    /\ ShutdownSection
    /\ ret' = Result(Main, "shutdown", "none", TRUE, None, FALSE)
    /\ UNCHANGED <<call, histVars, taskVars>>

\* __exit__ of the context manager
ExitCall ==
    /\ ShutdownSection
    /\ ret' = Result(Main, "exit", "none", TRUE, None, FALSE)
    /\ UNCHANGED <<call, histVars, taskVars>>

ClearCall ==
    /\ ClearSection
    /\ cleared' = TRUE
    /\ ret' = Result(Main, "clear", "none", TRUE, None, FALSE)
    /\ UNCHANGED <<call, putLog, taskVars>>

\* get_statistics()
StatisticsCall ==
    /\ ret' = [Result(Main, "get_statistics", "none", TRUE, None, FALSE)
                 EXCEPT !.stats = Statistics]
    /\ UNCHANGED <<queueVars, waitVars, qs, call, histVars, taskVars>>

\* is_shutdown()
IsShutdownCall ==
    /\ ret' = Result(Main, "is_shutdown", "none", IsShutdown, None, FALSE)
    /\ UNCHANGED <<queueVars, waitVars, qs, call, histVars, taskVars>>

Next ==
    \/ \E t \in Callers, tmo \in Timeouts : PutCall(t, tmo)
    \/ \E t \in Callers, tmo \in Timeouts : GetCall(t, tmo)
    \/ \E t \in Callers : Timeout(t)
    \/ \E t \in Callers : Resume(t)
    \/ ShutdownCall
    \/ ExitCall
    \/ ClearCall
    \/ IsShutdownCall
    \/ StatisticsCall

Spec == Init /\ [][Next]_vars

\* ------------------------------------------------------------- timeout=0
\* put and get called with no timeout or with timeout=0. wait(0) appends the
\* waiter, releases the lock and then polls the waiter lock without blocking
\* (Timeout: the poll fails) so, as with a positive timeout, a notify that
\* comes between the release and the poll makes wait() return True.
PollTimeouts == {"none", "zero"}

PollNext ==
    \/ \E t \in Callers, tmo \in PollTimeouts : PutCall(t, tmo)
    \/ \E t \in Callers, tmo \in PollTimeouts : GetCall(t, tmo)
    \/ \E t \in Callers : Timeout(t)
    \/ \E t \in Callers : Resume(t)
    \/ ShutdownCall
    \/ ClearCall

PollSpec == Init /\ [][PollNext]_vars

\* ------------------------------------------------------- context manager
\* The ways a with-block is left; each makes the interpreter call
\* __exit__(exc_type, exc_val, exc_tb), with the exception if one was raised.
ExitPaths == {"exit_completed", "exit_returned", "exit_raised"}

ExitShutsDown_UnlessRaised(path) == path # "exit_raised"

\* __exit__: whether it calls shutdown(); it does not look at its arguments.
ExitShutsDown(path) == TRUE

\* __enter__: returns the queue
EnterCall ==
    /\ ret' = Result(Main, "enter", "none", TRUE, None, FALSE)
    /\ UNCHANGED <<queueVars, waitVars, qs, call, histVars, taskVars>>

\* The with-block is left along `path`: __exit__ runs.
WithExit(path) ==
    /\ IF ExitShutsDown(path)
       THEN ShutdownSection
       ELSE UNCHANGED <<queueVars, waitVars, qs>>
    /\ ret' = Result(Main, path, "none", TRUE, None, FALSE)
    /\ UNCHANGED <<call, histVars, taskVars>>

\* `with BlockingQueue(...) as queue:` while other threads put and get.
WithNext ==
    \/ EnterCall
    \/ \E t \in Callers, tmo \in Timeouts : PutCall(t, tmo)
    \/ \E t \in Callers, tmo \in Timeouts : GetCall(t, tmo)
    \/ \E t \in Callers : Timeout(t)
    \/ \E t \in Callers : Resume(t)
    \/ \E path \in ExitPaths : WithExit(path)

\* A thread that was notified or whose timeout expired gets the lock again.
WithSpec == Init /\ [][WithNext]_vars /\ \A t \in Callers : WF_vars(Resume(t))

\* ---------------------------------------------------------- construction
CapacityInvalid_NegativeOnly(cap) == cap < 0

\* __init__: the test that raises ValueError
CapacityInvalid(cap) == cap < 1

\* The arguments BlockingQueue(capacity) is called with: the valid ones and
\* NumBadCapacities invalid ones, 0 among them.
CapacityArgs == (1 - NumBadCapacities)..MaxCapacity

\* Before BlockingQueue(...) has returned an object there is no queue;
\* self._capacity is unassigned (None). The other variables already have the
\* values __init__ gives them.
NoQueueInit ==
    /\ SinkInit
    /\ capacity = None
    /\ queue = <<>>
    /\ shutdown = FALSE
    /\ added = 0
    /\ removed = 0
    /\ blockedPuts = 0
    /\ blockedGets = 0
    /\ notFullWaiters = <<>>
    /\ notEmptyWaiters = <<>>
    /\ qs = [t \in Threads |-> "out"]
    /\ call = [t \in Threads |-> NoCall]
    /\ ret = NoRet
    /\ cleared = FALSE
    /\ putLog = [p \in Producers |-> <<>>]
    /\ running = [t \in Tasks |-> FALSE]
    /\ stopEvent = [t \in Tasks |-> FALSE]
    /\ srcPos = [p \in Producers |-> 0]
    /\ produced = [p \in Producers |-> 0]
    /\ consumed = [c \in Consumers |-> 0]
    /\ dest = [c \in Consumers |-> <<>>]
    /\ res = [t \in Tasks |-> NoRes]
    /\ loc = [t \in Tasks |-> "absent"]
    /\ ctimeout = "none"

\* BlockingQueue(cap): raises ValueError (ret.ok false, no object) or returns
\* the queue. After a failure the program may try again.
Construct(cap) ==
    /\ capacity = None
    /\ IF CapacityInvalid(cap)
       THEN /\ ret' = Result(Main, "init", "none", FALSE, None, FALSE)
            /\ UNCHANGED capacity
       ELSE /\ ret' = Result(Main, "init", "none", TRUE, None, FALSE)
            /\ capacity' = cap
    /\ UNCHANGED <<queue, shutdown, added, removed, blockedPuts, blockedGets,
                   waitVars, qs, call, histVars, taskVars>>

\* The methods are called on a constructed queue only.
CtorNext ==
    \/ \E cap \in CapacityArgs : Construct(cap)
    \/ /\ capacity # None
       /\ Next

CtorSpec == NoQueueInit /\ [][CtorNext]_vars

\* ------------------------------------------------------ Producer, Consumer
\* Leaving run(): the finally clause.
Finish(t) ==
    /\ loc' = [loc EXCEPT ![t] = "done"]
    /\ running' = [running EXCEPT ![t] = FALSE]

\* Thread.start(): run() begins. The main thread starts the tasks one after
\* the other, the producers first.
Start(t) ==
    /\ loc[t] = "idle"
    /\ \A u \in Tasks : u < t => loc[u] # "idle"
    /\ loc' = [loc EXCEPT ![t] = "loop"]
    /\ running' = [running EXCEPT ![t] = TRUE]
    /\ ret' = NoRet
    /\ UNCHANGED <<queueVars, waitVars, qs, call, histVars, stopEvent, srcPos,
                   produced, consumed, dest, res, ctimeout, sinkVars, lockVars>>

\* Producer.run(), one iteration up to the call of put: the for statement
\* takes the next item of the source, then the stop signal is tested, then
\* put(item) is called with no timeout.
ProducerNext(p) ==
    /\ loc[p] = "loop"
    /\ IF srcPos[p] >= SourceLen
       THEN /\ Finish(p)
            /\ ret' = NoRet
            /\ UNCHANGED <<queueVars, waitVars, qs, call, putLog, srcPos, res>>
       ELSE /\ srcPos' = [srcPos EXCEPT ![p] = @ + 1]
            /\ IF stopEvent[p]
               THEN /\ Finish(p)
                    /\ ret' = NoRet
                    /\ UNCHANGED <<queueVars, waitVars, qs, call, putLog, res>>
               ELSE /\ MayBlock(PutMustWait)
                    /\ PutSection(p, [op |-> "put", item |-> Source(p)[srcPos[p] + 1],
                                      tmo |-> "none"], FALSE)
                    /\ loc' = [loc EXCEPT ![p] = "put"]
                    /\ UNCHANGED running
    /\ UNCHANGED <<cleared, stopEvent, produced, consumed, dest, ctimeout, sinkVars, lockVars>>

ProducerAfterPut_Continues(p) ==
    /\ loc[p] = "put"
    /\ qs[p] = "out"
    /\ produced' = IF res[p].ok THEN [produced EXCEPT ![p] = @ + 1] ELSE produced
    /\ loc' = [loc EXCEPT ![p] = "loop"]
    /\ res' = [res EXCEPT ![p] = NoRes]
    /\ ret' = NoRet
    /\ UNCHANGED <<queueVars, waitVars, qs, call, histVars, running, stopEvent,
                   srcPos, consumed, dest, ctimeout, sinkVars, lockVars>>

ProducerAfterPut_CountsRejected(p) ==
    /\ loc[p] = "put"
    /\ qs[p] = "out"
    /\ produced' = [produced EXCEPT ![p] = @ + 1]
    /\ IF ~res[p].ok
       THEN Finish(p)
       ELSE /\ loc' = [loc EXCEPT ![p] = "loop"]
            /\ UNCHANGED running
    /\ res' = [res EXCEPT ![p] = NoRes]
    /\ ret' = NoRet
    /\ UNCHANGED <<queueVars, waitVars, qs, call, histVars, stopEvent, srcPos,
                   consumed, dest, ctimeout, sinkVars, lockVars>>

\* Producer.run() after put returned: leave the loop on False, count the item
\* on True.
ProducerAfterPut(p) ==
    /\ loc[p] = "put"
    /\ qs[p] = "out"
    /\ IF ~res[p].ok
       THEN /\ Finish(p)
            /\ UNCHANGED produced
       ELSE /\ produced' = [produced EXCEPT ![p] = @ + 1]
            /\ loc' = [loc EXCEPT ![p] = "loop"]
            /\ UNCHANGED running
    /\ res' = [res EXCEPT ![p] = NoRes]
    /\ ret' = NoRet
    /\ UNCHANGED <<queueVars, waitVars, qs, call, histVars, stopEvent, srcPos,
                   consumed, dest, ctimeout, sinkVars, lockVars>>

\* self._timeout of consumer c: the same for all consumers, or ("mixed")
\* finite for the first consumer and None for the others.
TimeoutOf(c) ==
    IF ctimeout = "mixed"
    THEN (IF c = NumCallers + NumProducers + 1 THEN "timed" ELSE "none")
    ELSE ctimeout

\* Consumer.run(), the head of the while loop and the call of get.
ConsumerNext(c) ==
    /\ loc[c] = "loop"
    /\ IF stopEvent[c]
       THEN /\ Finish(c)
            /\ ret' = NoRet
            /\ UNCHANGED <<queueVars, waitVars, qs, call, putLog, res>>
       ELSE /\ MayBlock(GetMustWait)
            /\ GetSection(c, [op |-> "get", item |-> None, tmo |-> TimeoutOf(c)], FALSE)
            /\ loc' = [loc EXCEPT ![c] = "get"]
            /\ UNCHANGED running
    /\ UNCHANGED <<cleared, stopEvent, srcPos, produced, consumed, dest, ctimeout, sinkVars, lockVars>>

\* The stop signal is looked at before the item is stored: a stopped
\* consumer drops the item it holds.
ConsumerAfterGet_StopFirst(c) ==
    /\ loc[c] = "get"
    /\ qs[c] = "out"
    /\ IF res[c].ok /\ ~stopEvent[c]
       THEN /\ dest' = [dest EXCEPT ![c] = Append(@, res[c].item)]
            /\ consumed' = [consumed EXCEPT ![c] = @ + 1]
            /\ loc' = [loc EXCEPT ![c] = "loop"]
       ELSE /\ loc' = [loc EXCEPT ![c] = IF IsShutdown /\ ~res[c].ok
                                         THEN "is_empty" ELSE "loop"]
            /\ UNCHANGED <<dest, consumed>>
    /\ res' = [res EXCEPT ![c] = NoRes]
    /\ ret' = NoRet
    /\ UNCHANGED <<queueVars, waitVars, qs, call, histVars, running, stopEvent,
                   srcPos, produced, ctimeout, sinkVars, lockVars>>

\* Consumer.run() after get returned: store and count the item on success,
\* call is_shutdown() on failure.
ConsumerAfterGet(c) ==
    /\ loc[c] = "get"
    /\ qs[c] = "out"
    /\ IF res[c].ok
       THEN /\ dest' = [dest EXCEPT ![c] = Append(@, res[c].item)]
            /\ consumed' = [consumed EXCEPT ![c] = @ + 1]
            /\ loc' = [loc EXCEPT ![c] = "loop"]
       ELSE /\ loc' = [loc EXCEPT ![c] = IF IsShutdown THEN "is_empty" ELSE "loop"]
            /\ UNCHANGED <<dest, consumed>>
    /\ res' = [res EXCEPT ![c] = NoRes]
    /\ ret' = NoRet
    /\ UNCHANGED <<queueVars, waitVars, qs, call, histVars, running, stopEvent,
                   srcPos, produced, ctimeout, sinkVars, lockVars>>

\* Consumer.run(): is_shutdown() was true, now is_empty() decides.
ConsumerIsEmpty(c) ==
    /\ loc[c] = "is_empty"
    /\ IF IsEmpty
       THEN Finish(c)
       ELSE /\ loc' = [loc EXCEPT ![c] = "loop"]
            /\ UNCHANGED running
    /\ ret' = NoRet
    /\ UNCHANGED <<queueVars, waitVars, qs, call, histVars, stopEvent, srcPos,
                   produced, consumed, dest, res, ctimeout, sinkVars, lockVars>>

Stop_ShutsQueueDown(t) ==
    /\ loc[t] # "absent"
    /\ Cardinality({u \in Tasks : stopEvent[u]}) < MaxStops
    /\ stopEvent' = [stopEvent EXCEPT ![t] = TRUE]
    /\ shutdown' = TRUE
    /\ ret' = NoRet
    /\ UNCHANGED <<capacity, queue, added, removed, blockedPuts, blockedGets,
                   waitVars, qs, call, histVars, loc, running, srcPos,
                   produced, consumed, dest, res, ctimeout, sinkVars, lockVars>>

\* stop() interrupts the wait of the task it stops.
Stop_AbortsWait(t) ==
    /\ loc[t] # "absent"
    /\ Cardinality({u \in Tasks : stopEvent[u]}) < MaxStops
    /\ stopEvent' = [stopEvent EXCEPT ![t] = TRUE]
    /\ qs' = [qs EXCEPT ![t] = IF @ = "waiting" THEN "timedout" ELSE @]
    /\ ret' = NoRet
    /\ UNCHANGED <<queueVars, waitVars, call, histVars, loc, running, srcPos,
                   produced, consumed, dest, res, ctimeout, sinkVars, lockVars>>

\* stop() of a producer or a consumer
Stop(t) ==
    /\ loc[t] # "absent"
    /\ Cardinality({u \in Tasks : stopEvent[u]}) < MaxStops
    /\ stopEvent' = [stopEvent EXCEPT ![t] = TRUE]
    /\ ret' = NoRet
    /\ UNCHANGED <<queueVars, waitVars, qs, call, histVars, loc, running, srcPos,
                   produced, consumed, dest, res, ctimeout, sinkVars, lockVars>>

PipeNext ==
    \/ \E t \in Tasks : Start(t)
    \/ \E p \in Producers : ProducerNext(p)
    \/ \E p \in Producers : ProducerAfterPut(p)
    \/ \E c \in Consumers : ConsumerNext(c)
    \/ \E c \in Consumers : ConsumerAfterGet(c)
    \/ \E c \in Consumers : ConsumerIsEmpty(c)
    \/ \E t \in Tasks : Timeout(t)
    \/ \E t \in Tasks : Resume(t)
    \/ \E t \in Tasks : Stop(t)
    \/ ShutdownCall

PipeSpec == PipeInit /\ [][PipeNext]_vars

\* A step of consumer c's thread that needs no other thread and no timeout.
ConsumerStep(c) ==
    \/ ConsumerNext(c)
    \/ ConsumerAfterGet(c)
    \/ ConsumerIsEmpty(c)
    \/ Resume(c)

\* The pipeline with every consumer thread scheduled again and again: a
\* consumer that can take a step (it is not inside a wait) eventually does.
FairPipeSpec == PipeSpec /\ \A c \in Consumers : WF_vars(ConsumerStep(c))

\* ------------------------------------------------------ the orchestrator
\* The tasks of S that were created.
Present(S) == {t \in S : loc[t] # "absent"}

\* A pipeline as the orchestrator sets it up: as PipeInit, and the consumers
\* may also have different timeouts.
OrchInit ==
    /\ QueueInit
    /\ \E np \in 1..NumProducers, nc \in 1..NumConsumers :
          /\ np + nc <= MaxTasks
          /\ loc = [t \in Tasks |->
                     IF \/ t \in Producers /\ t - NumCallers <= np
                        \/ t \in Consumers /\ t - NumCallers - NumProducers <= nc
                     THEN "idle" ELSE "absent"]
          /\ ctimeout \in Timeouts \cup (IF nc >= 2 THEN {"mixed"} ELSE {})

\* The orchestrator has started every task and joined the producers: it
\* calls shutdown(), once.
OrchShutdown ==
    /\ \A t \in Present(Tasks) : loc[t] # "idle"
    /\ \A p \in Present(Producers) : loc[p] = "done"
    /\ ~shutdown
    /\ ShutdownCall

\* stop() of a consumer, while another consumer stays that is not stopped.
StopSpare(c) ==
    /\ \E d \in Present(Consumers) \ {c} : ~stopEvent[d]
    /\ Stop(c)

\* A step of producer p's thread that needs no other thread.
ProducerStep(p) ==
    \/ ProducerNext(p)
    \/ ProducerAfterPut(p)
    \/ Resume(p)

OrchNext ==
    \/ \E t \in Tasks : Start(t)
    \/ \E p \in Producers : ProducerStep(p)
    \/ \E c \in Consumers : ConsumerStep(c)
    \/ \E c \in Consumers : Timeout(c)
    \/ \E c \in Consumers : StopSpare(c)
    \/ OrchShutdown

\* Every thread is scheduled again and again, every finite timeout expires
\* unless the wait is notified first, and the orchestrator goes on.
OrchSpec ==
    /\ OrchInit /\ [][OrchNext]_vars
    /\ \A t \in Tasks : WF_vars(Start(t))
    /\ \A p \in Producers : WF_vars(ProducerStep(p))
    /\ \A c \in Consumers : WF_vars(ConsumerStep(c)) /\ WF_vars(Timeout(c))
    /\ WF_vars(OrchShutdown)

\* Fairness for the threads that call put and get: a thread that was notified
\* or whose timeout expired gets the lock again. No timeout is forced to expire.
FairSpec == Spec /\ \A t \in Callers : WF_vars(Resume(t))

\* ---------------------------------------------------------------- helpers
IsPrefix(a, b) == Len(a) <= Len(b) /\ a = SubSeq(b, 1, Len(a))

RECURSIVE Flatten(_, _)
\* The sequences f[t], t in S, one after the other.
Flatten(f, S) ==
    IF S = {} THEN <<>>
    ELSE LET t == CHOOSE x \in S : \A y \in S : x <= y
         IN  f[t] \o Flatten(f, S \ {t})

\* The multiset of the elements of a sequence.
BagOf(s) ==
    [x \in {s[i] : i \in DOMAIN s} |-> Cardinality({i \in DOMAIN s : s[i] = x})]

AllDone == \A t \in Present(Tasks) : loc[t] = "done"
NoStop  == \A t \in Tasks : ~stopEvent[t]

\* Thread t is inside a call of op that has waited and has not returned.
Blocked(t, op) == qs[t] # "out" /\ call[t].op = op

\* The last step was the return of op to thread t.
Returned(t, op) == ret.t = t /\ ret.op = op

\* ------------------------------------------------------------------ claims

\* C1: in every reachable state, under any interleaving of put, get, clear and
\* shutdown calls, the buffer holds at least 0 and at most capacity items.
C1_SizeWithinCapacity == 0 <= Len(queue) /\ Len(queue) <= capacity

\* Two producers were blocked on the full queue and woken together; one has
\* appended and filled the queue again, the other has not run yet.
C1_Witness ==
    \E t \in Callers, u \in Callers :
        /\ t # u
        /\ Len(queue) = capacity
        /\ Returned(t, "put") /\ ret.ok /\ ret.blocked
        /\ qs[u] = "notified" /\ call[u].op = "put"

\* C2 as stated: with one producer and one consumer, the destination is always
\* a prefix of what the producer has put, and equal to it once the producer
\* has finished, shutdown was called and the consumer terminated.
C2_Original ==
    (Cardinality(Present(Producers)) = 1 /\ Cardinality(Present(Consumers)) = 1) =>
        \A p \in Present(Producers), c \in Present(Consumers) :
            /\ IsPrefix(dest[c], putLog[p])
            /\ (loc[p] = "done" /\ shutdown /\ loc[c] = "done") => dest[c] = putLog[p]

\* C2 amended: the same, the equality claimed only for a consumer on which
\* stop() was not called (it terminated because the queue was shut down and
\* empty).
C2_FifoSingleProducerConsumer ==
    (Cardinality(Present(Producers)) = 1 /\ Cardinality(Present(Consumers)) = 1) =>
        \A p \in Present(Producers), c \in Present(Consumers) :
            /\ IsPrefix(dest[c], putLog[p])
            /\ (loc[p] = "done" /\ shutdown /\ loc[c] = "done" /\ ~stopEvent[c])
                  => dest[c] = putLog[p]

\* One producer and one consumer, nobody stopped: the producer has put its
\* whole source through a queue that made it wait, and the consumer has
\* terminated with all of it.
C2_Witness ==
    /\ Cardinality(Present(Producers)) = 1 /\ Cardinality(Present(Consumers)) = 1
    /\ AllDone /\ shutdown /\ NoStop
    /\ blockedPuts > 0
    /\ \A p \in Present(Producers), c \in Present(Consumers) :
          dest[c] = Source(p) /\ putLog[p] = Source(p)

\* C3: when every producer and every consumer has terminated, no stop() and
\* no clear() was called, the items in the consumers' destinations are, as a
\* multiset, the items the producers' puts appended. (This covers the claim's
\* case, producers that exhausted their sources before the shutdown, and also
\* a shutdown that rejected a producer's put.)
C3_NoLossNoDuplication ==
    (AllDone /\ NoStop /\ ~cleared) =>
        BagOf(Flatten(dest, Consumers)) = BagOf(Flatten(putLog, Producers))

\* Two consumers shared the items of a producer that exhausted its source.
C3_Witness ==
    /\ AllDone /\ NoStop /\ ~cleared /\ shutdown
    /\ Cardinality(Present(Consumers)) >= 2
    /\ \A c \in Present(Consumers) : Len(dest[c]) >= 1
    /\ \A p \in Present(Producers) : putLog[p] = Source(p) /\ produced[p] = SourceLen

C5_ShutdownReleasesWaiters ==
    \A t \in Callers :
        /\ (shutdown /\ Blocked(t, "put"))
              ~> (Returned(t, "put") /\ ~ret.ok)
        /\ (shutdown /\ Blocked(t, "get") /\ queue = <<>>)
              ~> (Returned(t, "get") /\ ~ret.ok /\ ret.item = None)

\* shutdown() has just woken every calling thread, all blocked without a timeout.
C5_Witness ==
    /\ NumCallers >= 2
    /\ shutdown /\ ret.op = "shutdown" /\ ~ret.sd
    /\ \A t \in Callers : qs[t] = "notified" /\ call[t].tmo = "none"

\* C6: a put issued on a shut-down queue returns False in the same step,
\* whatever its timeout and whether or not the buffer is full, and leaves the
\* buffer and total_items_added alone; and no step taken on a shut-down queue
\* lengthens the buffer or changes total_items_added.
C6_PutAfterShutdownRejected ==
    [][ /\ \A t \in Callers, tmo \in Timeouts :
              (shutdown /\ PutCall(t, tmo))
                 => /\ qs'[t] = "out"
                    /\ Returned(t, "put")' /\ ~ret'.ok /\ ~ret'.blocked
                    /\ queue' = queue /\ added' = added
        /\ shutdown => (Len(queue') <= Len(queue) /\ added' = added)
      ]_vars

\* A put with no timeout was rejected although the buffer had room.
C6_Witness ==
    /\ ret.op = "put" /\ ret.sd /\ ~ret.ok /\ ret.tmo = "none"
    /\ Len(queue) < capacity

C9_ShutdownIdempotent ==
    [][ (shutdown /\ ShutdownCall)
           => UNCHANGED <<queueVars, waitVars, qs, call, histVars, taskVars>>
      ]_vars

\* shutdown() has returned from a call on a shut-down queue that holds items.
C9_Witness ==
    /\ ret.op = "shutdown" /\ ret.sd
    /\ shutdown /\ queue # <<>>

\* C10: no step resets the shutdown flag, and clear() leaves it as it is.
C10_ShutdownLatch ==
    [][ /\ shutdown => shutdown'
        /\ ClearCall => shutdown' = shutdown
      ]_vars

\* clear() has returned from a call on a shut-down queue, which is still shut down.
C10_Witness ==
    /\ ret.op = "clear" /\ ret.sd
    /\ shutdown

\* C11: BlockingQueue(capacity) with capacity < 1 raises ValueError and leaves
\* no queue; a construction that returns a queue gave it the capacity asked
\* for, which is at least 1; and no step changes the capacity of a queue.
C11_CapacityValidated ==
    [][ /\ \A cap \in CapacityArgs :
              Construct(cap) =>
                 /\ Returned(Main, "init")'
                 /\ IF cap < 1
                    THEN ~ret'.ok /\ capacity' = None
                    ELSE ret'.ok /\ capacity' = cap /\ capacity' >= 1
        /\ capacity # None => (capacity >= 1 /\ capacity' = capacity)
      ]_vars

\* BlockingQueue(0) has just raised: there is no queue.
C11_Witness ==
    /\ ret.op = "init" /\ ~ret.ok
    /\ capacity = None

\* A get by another thread has just removed an item while t was blocked in
\* put, before any shutdown, and its notify has released t from the deque of
\* waiters before t's timeout expired.
SlotFreedFor(t) ==
    /\ Blocked(t, "put") /\ qs[t] # "timedout"
    /\ \A i \in DOMAIN notFullWaiters : notFullWaiters[i] # t
    /\ ret.op = "get" /\ ret.ok
    /\ ~shutdown

OwnStep(t) ==
    \/ \E tmo \in Timeouts : PutCall(t, tmo) \/ GetCall(t, tmo)
    \/ Timeout(t)
    \/ Resume(t)

\* C13: a put or get whose wait has timed out returns False / (False, None)
\* and changes neither the buffer, the shutdown flag nor any counter in that
\* step; and no step of a call that goes on waiting or fails changes the
\* buffer, the flag or the added/removed counters (so a failed put has not
\* appended its item), the blocked counter of the operation being the only
\* counter such a call changes, by one, when it first waits.
C13_TimeoutChangesNothing ==
    [][ \A t \in Callers :
          /\ (qs[t] = "timedout" /\ Resume(t))
                => /\ ret'.t = t /\ ret'.op = call[t].op /\ ~ret'.ok /\ ret'.item = None
                   /\ ret'.blocked
                   /\ qs'[t] = "out"
                   /\ UNCHANGED queueVars
          /\ (OwnStep(t) /\ (qs'[t] # "out" \/ ~ret'.ok))
                => /\ UNCHANGED <<capacity, queue, shutdown, added, removed>>
                   /\ blockedPuts' + blockedGets' \in
                         {blockedPuts + blockedGets,
                          blockedPuts + blockedGets + (IF qs[t] = "out" THEN 1 ELSE 0)}
      ]_vars

\* A put with a timeout has timed out on a full queue that was never shut down.
C13_Witness ==
    /\ ret.op = "put" /\ ~ret.ok /\ ret.blocked /\ ret.tmo = "timed"
    /\ ~shutdown
    /\ Len(queue) = capacity
    /\ blockedPuts > 0

\* C14: a put or get with timeout=0 decides at the call: the put returns True
\* exactly if the queue was neither full nor shut down then, the get returns
\* an item exactly if the buffer was not empty then. (A call that had to wait
\* found the queue full, or empty; one that did not wait returns in the
\* step of the call.)
C14_TryOnce ==
    (ret.tmo = "zero" /\ ret.op \in {"put", "get"}) =>
        /\ ret.blocked => ~ret.ok
        /\ (ret.op = "put" /\ ~ret.blocked) => (ret.ok <=> ~ret.sd)

\* C15: clear() empties the buffer in one step and releases every thread
\* waiting in put (none stays in the deque of `not full`; each one still
\* inside its wait is notified), changing nothing else; and a producer so
\* woken, on a queue not shut down, appends its item if the buffer has room
\* when it runs and waits again if the others have filled it.
C15_ClearEmptiesAndWakes ==
    [][ /\ ClearCall =>
              /\ queue' = <<>> /\ Len(queue') = 0
              /\ notFullWaiters' = <<>>
              /\ \A t \in Callers :
                    /\ (qs[t] = "waiting" /\ call[t].op = "put") => qs'[t] = "notified"
                    /\ ~(qs[t] = "waiting" /\ call[t].op = "put") => qs'[t] = qs[t]
              /\ UNCHANGED <<capacity, shutdown, added, removed, blockedPuts,
                             blockedGets, notEmptyWaiters, call>>
        /\ \A t \in Callers :
              (qs[t] = "notified" /\ call[t].op = "put" /\ ~shutdown /\ Resume(t))
                 => IF Len(queue) < capacity
                    THEN /\ queue' = Append(queue, call[t].item)
                         /\ Returned(t, "put")' /\ ret'.ok
                    ELSE /\ qs'[t] = "waiting" /\ queue' = queue
      ]_vars

\* clear() has just emptied a full queue and woken two producers blocked on it.
C15_Witness ==
    /\ NumCallers >= 2
    /\ ret.op = "clear" /\ ~shutdown
    /\ queue = <<>> /\ added >= capacity
    /\ \A t \in Callers : qs[t] = "notified" /\ call[t].op = "put"

\* C16: the six values get_statistics() returns are those of one state of the
\* queue, the one it returns in: they equal the queue's fields there, and so
\* satisfy what every single state satisfies: the size is within 0..capacity
\* and is the number added minus the number removed (less the items clear()
\* dropped, if it was called).
C16_StatisticsSnapshot ==
    (ret.op = "get_statistics") =>
        LET s == ret.stats IN
        /\ s = <<added, removed, blockedPuts, blockedGets, Len(queue), capacity>>
        /\ 0 <= s[5] /\ s[5] <= s[6]
        /\ s[2] <= s[1]
        /\ s[5] <= s[1] - s[2]
        /\ ~cleared => s[5] = s[1] - s[2]

\* get_statistics() has returned while a thread was inside put or get, after
\* items were added and removed and a put had waited.
C16_Witness ==
    /\ ret.op = "get_statistics"
    /\ ret.stats[1] > ret.stats[2] /\ ret.stats[2] > 0 /\ ret.stats[3] > 0
    /\ \E t \in Callers : qs[t] # "out"

\* C17: however the with-block is left (completion, return, exception), the
\* queue is shut down after __exit__, no thread is left in a deque of waiters,
\* every thread still inside a wait has been notified, and every thread that
\* was blocked in put or get then returns.
C17_ExitAlwaysShutsDown ==
    /\ [][ \A path \in ExitPaths :
              WithExit(path) =>
                 /\ shutdown'
                 /\ notFullWaiters' = <<>> /\ notEmptyWaiters' = <<>>
                 /\ \A t \in Callers : qs'[t] # "waiting"
                 /\ queue' = queue
         ]_vars
    /\ \A t \in Callers :
          (ret.op \in ExitPaths /\ qs[t] # "out") ~> (qs[t] = "out")

\* The with-block was left by an exception while every calling thread was
\* blocked; __exit__ has shut the queue down and woken them.
C17_Witness ==
    /\ NumCallers >= 2
    /\ ret.op = "exit_raised" /\ ~ret.sd /\ shutdown
    /\ \A t \in Callers : qs[t] = "notified"

\* C18: a producer that has left its loop because of stop() (it has
\* terminated, stop() was called, and the queue was never shut down, so no put
\* was rejected) has taken from its source exactly the items it put: none was
\* read and then dropped.
C18_StopCheckedBeforeRead ==
    \A p \in Producers :
        (loc[p] = "done" /\ stopEvent[p] /\ ~shutdown)
            => srcPos[p] = Len(putLog[p])

\* C19: a producer whose put returned False (which happens only on a queue
\* that is shut down) leaves its loop in its next step without counting the
\* item (items_produced and with it the on_produce calls stay as they are),
\* reading the source or touching the queue; and a producer that has
\* terminated reads no further item, makes no further put and counts nothing
\* more, so that items_produced is the number of items its puts appended.
C19_RejectedPutEndsProducer ==
    [][ \A p \in Producers :
          /\ (loc[p] = "put" /\ qs[p] = "out" /\ ~res[p].ok) => shutdown
          /\ (ProducerAfterPut(p) /\ ~res[p].ok)
                => /\ loc'[p] = "done" /\ ~running'[p]
                   /\ produced' = produced /\ srcPos' = srcPos
                   /\ UNCHANGED <<queueVars, waitVars, qs, call, putLog>>
          /\ (loc[p] = "done")
                => /\ loc'[p] = "done" /\ qs'[p] = "out"
                   /\ srcPos'[p] = srcPos[p] /\ produced'[p] = produced[p]
                   /\ putLog'[p] = putLog[p]
                   /\ produced[p] = Len(putLog[p])
      ]_vars

\* A producer has terminated on a rejected put after a put that succeeded;
\* stop() was not called on it.
C19_Witness ==
    \E p \in Producers :
        /\ loc[p] = "done" /\ shutdown /\ ~stopEvent[p]
        /\ srcPos[p] = Len(putLog[p]) + 1
        /\ produced[p] = 1

\* C20: a consumer enters its finally clause only from the head of the loop
\* with its stop signal set, or from the is_empty() test that follows a failed
\* get and a true is_shutdown(), and then the queue is shut down and empty;
\* a shut-down empty queue stays empty; a failed get on a queue that is not
\* shut down, and an is_empty() that finds items, send the consumer back to
\* the head of the loop.
C20_ConsumerExitPaths ==
    [][ /\ \A c \in Consumers :
              /\ (loc[c] # "done" /\ loc'[c] = "done")
                    => \/ loc[c] = "loop" /\ stopEvent[c]
                       \/ /\ loc[c] = "is_empty"
                          /\ shutdown /\ queue = <<>>
                          /\ shutdown' /\ queue' = <<>>
              /\ (ConsumerAfterGet(c) /\ ~res[c].ok /\ ~shutdown) => loc'[c] = "loop"
              /\ (ConsumerIsEmpty(c) /\ queue # <<>>) => loc'[c] = "loop"
        /\ (shutdown /\ queue = <<>>) => queue' = <<>>
      ]_vars

\* A consumer's get timed out on the empty queue, then an item was put and
\* the queue shut down: the consumer has seen is_shutdown() true and is about
\* to find is_empty() false, with nothing consumed yet.
C20_Witness ==
    \E c \in Consumers :
        /\ loc[c] = "is_empty"
        /\ shutdown /\ queue # <<>>
        /\ ctimeout = "timed" /\ consumed[c] = 0

\* C21: once the queue is shut down, a state is eventually reached in which
\* no consumer is running (a consumer that has terminated never runs again,
\* so every consumer running at or after the shutdown terminates), with or
\* without a timeout and whatever is left in the buffer; and when the queue
\* is shut down, all consumers have terminated and none was stopped, the
\* buffer is empty.
C21_ShutdownEndsConsumers ==
    /\ shutdown ~> (\A c \in Consumers : ~running[c])
    /\ [](( /\ shutdown
            /\ \A c \in Present(Consumers) : loc[c] = "done" /\ ~stopEvent[c] )
           => queue = <<>>)

\* Shutdown has come with items in the buffer and two consumers running, both
\* inside a get without timeout.
C21_Witness ==
    /\ ret.op = "shutdown" /\ shutdown /\ queue # <<>>
    /\ ctimeout = "none"
    /\ Cardinality({c \in Consumers : running[c] /\ qs[c] = "notified"}) = 2

\* The number of items in all the sources of the producers that exist.
TotalSource == SourceLen * Cardinality(Present(Producers))

\* Nothing can happen any more although a producer has not terminated: the
\* queue is not shut down (the orchestrator is still joining the producers)
\* and every task has either terminated or is inside a wait without timeout
\* that no notify has released.
Stalled ==
    /\ ~shutdown
    /\ \E p \in Present(Producers) : loc[p] # "done"
    /\ \A t \in Present(Tasks) :
          \/ loc[t] = "done"
          \/ qs[t] = "waiting" /\ call[t].tmo = "none"

\* C22: under the orchestrator's protocol, with at least one consumer never
\* stopped, every producer eventually exhausts its source and terminates (so
\* the pipeline is never in a state where a producer can no longer
\* terminate), and once the queue is shut down and all tasks have terminated
\* the buffer is empty and the sinks hold as many items as the sources had.
C22_OrchestratorTransfersAll ==
    /\ ~Stalled
    /\ (shutdown /\ AllDone)
          => /\ queue = <<>>
             /\ \A p \in Present(Producers) : srcPos[p] = SourceLen
             /\ Len(Flatten(dest, Consumers)) = TotalSource

\* The items of producer p in the sequence s, in the order they have in s.
ItemsOf(p, s) == SelectSeq(s, LAMBDA x : \E i \in 1..SourceLen : Source(p)[i] = x)

IsSuffix(a, b) == Len(a) <= Len(b) /\ a = SubSeq(b, Len(b) - Len(a) + 1, Len(b))

\* C23: the items of a producer p still in the buffer are the last ones p
\* put, in p's put order; a step that removes an item removes the head of
\* the buffer and leaves the rest in place, whichever consumer takes it, and
\* a step that adds one adds it at the tail (so p's items leave in the order
\* p put them); and with a single consumer, the destination restricted to
\* p's items is a prefix of what p put, in p's put order.
C23_PerProducerFifo ==
    /\ [](\A p \in Producers :
            /\ IsSuffix(ItemsOf(p, queue), putLog[p])
            /\ Cardinality(Present(Consumers)) = 1
                  => \A c \in Present(Consumers) :
                        IsPrefix(ItemsOf(p, dest[c]), putLog[p]))
    /\ [][ /\ Len(queue') < Len(queue)
               => /\ queue' = Tail(queue)
                  /\ \E c \in Consumers : res'[c] = [ok |-> TRUE, item |-> Head(queue)]
           /\ Len(queue') > Len(queue)
               => \E p \in Producers :
                     /\ srcPos'[p] >= 1
                     /\ queue' = Append(queue, Source(p)[srcPos'[p]])
                     /\ putLog'[p] = Append(putLog[p], Source(p)[srcPos'[p]])
         ]_vars

\* Two producers and one consumer have all terminated; the consumer holds all
\* four items, an item of the second producer before the first producer's.
C23_Witness ==
    /\ AllDone /\ NoStop
    /\ Cardinality(Present(Producers)) = 2 /\ Cardinality(Present(Consumers)) = 1
    /\ \E c \in Present(Consumers) :
          /\ Len(dest[c]) = 2 * SourceLen
          /\ dest[c][1] > SourceLen /\ dest[c][2] <= SourceLen

\* C24: stop() of a task sets that task's stop signal and nothing else: the
\* queue's flag, buffer, counters and waiters, the calls in progress and the
\* other tasks' stop signals stay as they are; and shutdown() changes no
\* task's stop signal.
C24_StopAndShutdownIndependent ==
    [][ /\ \A t \in Tasks :
              Stop(t) =>
                 /\ stopEvent'[t]
                 /\ \A u \in Tasks \ {t} : stopEvent'[u] = stopEvent[u]
                 /\ UNCHANGED <<queueVars, waitVars, qs, call, histVars>>
                 /\ UNCHANGED <<loc, running, srcPos, produced, consumed, dest, res>>
        /\ ShutdownCall => stopEvent' = stopEvent
      ]_vars

\* A task was stopped and has terminated; the queue is not shut down, and
\* another producer has put its whole source through it to a consumer that
\* was not stopped.
C24_Witness ==
    /\ ~shutdown
    /\ \E t \in Tasks :
          /\ stopEvent[t] /\ loc[t] = "done"
          /\ \E u \in Producers \ {t} : produced[u] = SourceLen
          /\ \E c \in Consumers \ {t} : consumed[c] >= SourceLen /\ ~stopEvent[c]

\* C25: with one producer and one consumer, once the producer has terminated,
\* the queue is shut down and the consumer, on which stop() was not called,
\* has terminated, the destination holds exactly as many items as the
\* producer counted in items_produced, whether the producer was stopped early
\* or not and wherever the shutdown fell.
C25_StoppedProducerLosesNothing ==
    (Cardinality(Present(Producers)) = 1 /\ Cardinality(Present(Consumers)) = 1) =>
        \A p \in Present(Producers), c \in Present(Consumers) :
            (loc[p] = "done" /\ shutdown /\ loc[c] = "done" /\ ~stopEvent[c])
                => /\ Len(dest[c]) = produced[p]
                   /\ consumed[c] = produced[p]

\* The producer was stopped after its first item and before its source was
\* exhausted; everything has terminated and the consumer holds that item.
C25_Witness ==
    /\ Cardinality(Present(Producers)) = 1 /\ Cardinality(Present(Consumers)) = 1
    /\ AllDone /\ shutdown
    /\ \A p \in Present(Producers), c \in Present(Consumers) :
          /\ stopEvent[p] /\ produced[p] = 1 /\ produced[p] < SourceLen
          /\ dest[c] = <<Source(p)[1]>>

\* ---------------------------------------------------------------------------
\* DestinationContainer (consumer.py): the sink the consumers append to.
\* Every method body is one critical section on the container's own lock, so
\* each call is one step.  The threads appending are the callers; thread t's
\* j-th append is given the item <<t, j>>.
\* ---------------------------------------------------------------------------

SinkItem(t, j) == <<t, j>>

\* The item a caller adds to a list it was handed.
Foreign == <<Main, 0>>

ItemsFrom(t, s) == SelectSeq(s, LAMBDA x : x[1] = t)

\* A lost update: the item takes the place of the last one when that one was
\* appended by another thread.
SinkAppended_LostUpdate(s, x) ==
    IF s # <<>> /\ s[Len(s)][1] # x[1]
    THEN [s EXCEPT ![Len(s)] = x]
    ELSE Append(s, x)

\* self._items.append(item), under the lock
SinkAppended(s, x) == Append(s, x)

\* The same list object is handed out.
ReturnedList_Same(by, s) ==
    [ref |-> "same", by |-> by, items |-> <<>>, mutated |-> FALSE]

\* list(self._items) / list(self._destination): a new list object holding
\* the items the sink holds at the call
ReturnedList(by, s) ==
    [ref |-> "copy", by |-> by, items |-> s, mutated |-> FALSE]

\* What the list returned earlier holds now.
Held == IF got.ref = "same" THEN sinkItems ELSE got.items

\* DestinationContainer.append
SinkAppend(t) ==
    /\ Len(sinkCalls[t]) < MaxAppends
    /\ LET x == SinkItem(t, Len(sinkCalls[t]) + 1) IN
          /\ sinkItems' = SinkAppended(sinkItems, x)
          /\ sinkCalls' = [sinkCalls EXCEPT ![t] = Append(@, x)]
    /\ ret' = NoRet
    /\ UNCHANGED <<queueVars, waitVars, qs, call, histVars, loc, running, stopEvent,
                   srcPos, produced, consumed, dest, res, ctimeout, got, lockVars>>

\* DestinationContainer.get_all
SinkGetAll ==
    /\ got' = ReturnedList("get_all", sinkItems)
    /\ ret' = NoRet
    /\ UNCHANGED <<queueVars, waitVars, qs, call, histVars, loc, running, stopEvent,
                   srcPos, produced, consumed, dest, res, ctimeout,
                   sinkItems, sinkCalls, lockVars>>

\* Consumer.get_results, the sink being the consumer's destination list
GetResults ==
    /\ got' = ReturnedList("get_results", sinkItems)
    /\ ret' = NoRet
    /\ UNCHANGED <<queueVars, waitVars, qs, call, histVars, loc, running, stopEvent,
                   srcPos, produced, consumed, dest, res, ctimeout,
                   sinkItems, sinkCalls, lockVars>>

\* DestinationContainer.size
SinkSize ==
    /\ ret' = [NoRet EXCEPT !.op = "size", !.item = Len(sinkItems)]
    /\ UNCHANGED <<queueVars, waitVars, qs, call, histVars, taskVars>>

\* The caller appends an item of its own to the list it was handed.
MutateReturned ==
    /\ got.ref # "none" /\ ~got.mutated
    /\ IF got.ref = "same"
       THEN /\ sinkItems' = Append(sinkItems, Foreign)
            /\ got' = [got EXCEPT !.mutated = TRUE]
       ELSE /\ got' = [got EXCEPT !.items = Append(@, Foreign), !.mutated = TRUE]
            /\ UNCHANGED sinkItems
    /\ ret' = NoRet
    /\ UNCHANGED <<queueVars, waitVars, qs, call, histVars, loc, running, stopEvent,
                   srcPos, produced, consumed, dest, res, ctimeout, sinkCalls,
                   lockVars>>

SinkNext ==
    \/ \E t \in Callers : SinkAppend(t)
    \/ SinkGetAll
    \/ GetResults
    \/ SinkSize
    \/ MutateReturned

SinkSpec == Init /\ [][SinkNext]_vars

AppendCalls == Flatten(sinkCalls, Callers)

\* The sink holds as many items as append was called, exactly the items the
\* calls were given, each once, and every thread's items in its append order.
HoldsAppended(s) ==
    /\ Len(s) = Len(AppendCalls)
    /\ BagOf(s) = BagOf(AppendCalls)
    /\ \A t \in Callers : ItemsFrom(t, s) = sinkCalls[t]

\* C26: after any interleaving of append calls from the threads, the sink
\* holds as many items as append was called, holds exactly the items the
\* calls were given, each once, and holds every thread's items in the order
\* that thread appended them; size() returns the number of append calls and
\* get_all() returns exactly those items in that order.
C26_AppendsSerialized ==
    [][ /\ (\E t \in Callers : SinkAppend(t)) => HoldsAppended(sinkItems)'
        /\ SinkSize => ret'.item = Len(AppendCalls)
        /\ SinkGetAll => HoldsAppended(Held)'
      ]_vars

\* Two threads' appends interleaved (the first thread's items are not
\* adjacent), every append was made, and size() has just returned.
C26_Witness ==
    /\ \A t \in Callers : Len(sinkCalls[t]) = MaxAppends
    /\ sinkItems[1][1] # sinkItems[2][1]
    /\ ret.op = "size" /\ ret.item = NumCallers * MaxAppends
    /\ got.by = "get_all" /\ Len(got.items) = NumCallers * MaxAppends

\* C27: the list get_all() or get_results() returned is independent of the
\* sink: a caller's mutation of it leaves the sink's contents as they were,
\* and an append to the sink leaves the returned list as it was.
C27_ReturnedCopyIndependent ==
    [][ /\ MutateReturned => sinkItems' = sinkItems
        /\ (got.ref # "none" /\ \E t \in Callers : SinkAppend(t)) => Held' = Held
      ]_vars

\* get_results() returned a list of at least one item; its caller mutated
\* it and the sink was appended to afterwards, so the two differ in both
\* directions.
C27_Witness ==
    /\ got.by = "get_results" /\ got.mutated
    /\ Len(got.items) >= 2
    /\ Len(sinkItems) > Len(got.items) - 1
    /\ \E i \in 1..Len(got.items) : got.items[i] = Foreign
    /\ \A i \in 1..Len(sinkItems) : sinkItems[i] # Foreign

\* ---------------------------------------------------------------------------
\* The single notify of put and get.
\* ---------------------------------------------------------------------------

WaitSet(ws) == {ws[i] : i \in DOMAIN ws}

\* The threads this step moved out of a wait set, and those it woke.
MovedOut(ws, ws2) == WaitSet(ws) \ WaitSet(ws2)
WokenNow == {t \in Threads : qs[t] = "waiting" /\ qs'[t] = "notified"}

SpuriousWake(t) ==
    /\ qs[t] = "waiting"
    /\ qs' = [qs EXCEPT ![t] = "notified"]
    /\ notFullWaiters' = Without(notFullWaiters, t)
    /\ notEmptyWaiters' = Without(notEmptyWaiters, t)
    /\ ret' = NoRet
    /\ UNCHANGED <<queueVars, call, histVars, taskVars>>

SpuriousNext ==
    \/ \E t \in Callers, tmo \in Timeouts : PutCall(t, tmo)
    \/ \E t \in Callers, tmo \in Timeouts : GetCall(t, tmo)
    \/ \E t \in Callers : Timeout(t)
    \/ \E t \in Callers : Resume(t)
    \/ \E t \in Callers : SpuriousWake(t)
    \/ ShutdownCall
    \/ ClearCall

SpuriousSpec == Init /\ [][SpuriousNext]_vars

\* C30: whatever woke it (a notify, notify_all of clear() or shutdown(), or
\* nothing at all) and whatever other threads did before it took the lock
\* again, a get removes an item only from a non-empty buffer, and removes
\* its head; a woken get that finds the buffer empty and the queue not shut
\* down waits again; a put appends only to a buffer below capacity of a
\* queue not shut down; a woken put that finds the buffer full and the queue
\* not shut down waits again.
C30_WaitIsRecheckedLoop ==
    [][ /\ removed' = removed + 1 => (queue # <<>> /\ queue' = Tail(queue))
        /\ added' = added + 1 => /\ Len(queue) < capacity /\ ~shutdown
                                 /\ Len(queue') = Len(queue) + 1
        /\ \A t \in Callers :
              (qs[t] = "notified" /\ Resume(t)) =>
                  /\ (call[t].op = "get" /\ queue = <<>> /\ ~shutdown)
                        => (qs'[t] = "waiting" /\ UNCHANGED queueVars)
                  /\ (call[t].op = "put" /\ Len(queue) >= capacity /\ ~shutdown)
                        => (qs'[t] = "waiting" /\ UNCHANGED queueVars)
      ]_vars

\* A thread woken inside get() is about to take the lock again while the
\* buffer is empty and the queue is open: an item was put and the other
\* thread has taken it.
C30_Witness ==
    \E t \in Callers :
        /\ qs[t] = "notified" /\ call[t].op = "get"
        /\ queue = <<>> /\ ~shutdown /\ ~cleared
        /\ added >= 1 /\ removed = added

\* ---------------------------------------------------------------------------
\* Failure without a timeout.
\* ---------------------------------------------------------------------------

C32_StopDoesNotAbortWait ==
    [][ \A p \in Producers :
          /\ (qs[p] = "waiting" /\ call[p].op = "put") =>
                /\ running'[p] /\ loc'[p] = "put" /\ call'[p] = call[p]
                /\ \/ qs'[p] = "waiting"
                   \/ removed' = removed + 1
                   \/ shutdown' /\ ~shutdown
          /\ (qs[p] = "notified" /\ call[p].op = "put" /\ stopEvent[p] /\
              ~shutdown /\ Len(queue) < capacity /\ Resume(p)) =>
                /\ queue' = Append(queue, call[p].item)
                /\ loc'[p] = "put" /\ running'[p]
          /\ (loc[p] = "put" /\ qs[p] = "out" /\ res[p].ok /\ stopEvent[p] /\
              ProducerAfterPut(p)) =>
                /\ produced'[p] = produced[p] + 1
                /\ loc'[p] = "loop" /\ running'[p]
      ]_vars

\* stop() was called on a producer inside put() on a full queue; a get has
\* freed a slot since and the producer, still running, is about to append.
C32_Witness ==
    \E p \in Producers :
        /\ stopEvent[p] /\ running[p] /\ loc[p] = "put"
        /\ qs[p] = "notified" /\ call[p].op = "put"
        /\ ~shutdown /\ Len(queue) < capacity

\* The pipeline with every consumer taking its steps and every timed wait
\* running out unless it is notified first.
TimedPipeSpec ==
    /\ PipeSpec
    /\ \A c \in Consumers : WF_vars(ConsumerStep(c)) /\ WF_vars(Timeout(c))

\* C33: once stop() has been called on a running consumer whose get has a
\* finite timeout, the consumer terminates, whether or not an item ever
\* arrives and whether or not the queue is ever shut down.
C33_StoppedTimedConsumerEnds ==
    (\E c \in Consumers : stopEvent[c] /\ running[c] /\ ctimeout = "timed")
        ~> (\A c \in Consumers : stopEvent[c] => ~running[c])

\* A consumer with a finite timeout was stopped and has terminated on the
\* stop signal: the queue is open and still holds an item.
C33_Witness ==
    \E c \in Consumers :
        /\ ctimeout = "timed" /\ stopEvent[c]
        /\ loc[c] = "done" /\ ~running[c]
        /\ ~shutdown /\ queue # <<>>

\* ---------------------------------------------------------------------------
\* Items in flight.
\* ---------------------------------------------------------------------------

\* The consumers holding an item that get() returned and run() has not yet
\* stored.
InFlight == {c \in Consumers : res[c].ok}

RECURSIVE SumLen(_, _)
SumLen(f, S) ==
    IF S = {} THEN 0
    ELSE LET t == CHOOSE x \in S : TRUE IN Len(f[t]) + SumLen(f, S \ {t})

\* C34: every item removed from the queue is in a consumer's destination or
\* is the one item a consumer that has not terminated still holds; a
\* consumer that has terminated holds none, and its items_consumed is the
\* number of items it appended; stop() or shutdown() between the removal and
\* the append changes none of this.
C34_InFlightItemsFinish ==
    /\ removed = SumLen(dest, Consumers) + Cardinality(InFlight)
    /\ \A c \in Consumers :
          /\ consumed[c] = Len(dest[c])
          /\ c \in InFlight => loc[c] = "get" /\ running[c]
          /\ loc[c] = "done" => c \notin InFlight

\* A consumer holds an item it has removed and not yet stored, and both
\* stop() on it and shutdown() have been called by now.
C34_Witness ==
    \E c \in Consumers :
        /\ c \in InFlight /\ loc[c] = "get" /\ qs[c] = "out"
        /\ stopEvent[c] /\ shutdown
        /\ removed = SumLen(dest, Consumers) + 1

\* ---------------------------------------------------------------------------
\* Exceptions inside run(): the source's iterator, the sink's append and the
\* on_produce / on_consume callbacks are the caller's code and may raise.
\* The exception leaves the loop through the finally clause.
\* ---------------------------------------------------------------------------

ExcPoints == {"source", "sink", "callback"}

\* Producer.run(): next(self._source) raises, or on_produce raises after the
\* item was put and counted.
ProducerRaises(p, at) ==
    /\ at \in {"source", "callback"}
    /\ IF at = "source"
       THEN /\ loc[p] = "loop"
            /\ srcPos[p] < SourceLen
            /\ UNCHANGED produced
       ELSE /\ loc[p] = "put"
            /\ qs[p] = "out"
            /\ res[p].ok
            /\ produced' = [produced EXCEPT ![p] = @ + 1]
    /\ Finish(p)
    /\ res' = [res EXCEPT ![p] = NoRes]
    /\ ret' = NoRet
    /\ UNCHANGED <<queueVars, waitVars, qs, call, histVars, stopEvent, srcPos,
                   consumed, dest, ctimeout, sinkVars, lockVars>>

\* The exception bypasses the reset of the flag.
ConsumerRaises_NoFinally(c, at) ==
    /\ at \in {"sink", "callback"}
    /\ loc[c] = "get"
    /\ qs[c] = "out"
    /\ res[c].ok
    /\ IF at = "sink"
       THEN UNCHANGED <<dest, consumed>>
       ELSE /\ dest' = [dest EXCEPT ![c] = Append(@, res[c].item)]
            /\ consumed' = [consumed EXCEPT ![c] = @ + 1]
    /\ loc' = [loc EXCEPT ![c] = "done"]
    /\ UNCHANGED running
    /\ res' = [res EXCEPT ![c] = NoRes]
    /\ ret' = NoRet
    /\ UNCHANGED <<queueVars, waitVars, qs, call, histVars, stopEvent, srcPos,
                   produced, ctimeout, sinkVars, lockVars>>

\* Consumer.run(): self._destination.append(item) raises, or on_consume
\* raises after the item was stored and counted.
ConsumerRaises(c, at) ==
    /\ at \in {"sink", "callback"}
    /\ loc[c] = "get"
    /\ qs[c] = "out"
    /\ res[c].ok
    /\ IF at = "sink"
       THEN UNCHANGED <<dest, consumed>>
       ELSE /\ dest' = [dest EXCEPT ![c] = Append(@, res[c].item)]
            /\ consumed' = [consumed EXCEPT ![c] = @ + 1]
    /\ Finish(c)
    /\ res' = [res EXCEPT ![c] = NoRes]
    /\ ret' = NoRet
    /\ UNCHANGED <<queueVars, waitVars, qs, call, histVars, stopEvent, srcPos,
                   produced, ctimeout, sinkVars, lockVars>>

ExcNext ==
    \/ \E t \in Tasks : Start(t)
    \/ \E p \in Producers : ProducerNext(p)
    \/ \E p \in Producers : ProducerAfterPut(p)
    \/ \E p \in Producers, at \in ExcPoints : ProducerRaises(p, at)
    \/ \E c \in Consumers : ConsumerNext(c)
    \/ \E c \in Consumers : ConsumerAfterGet(c)
    \/ \E c \in Consumers : ConsumerIsEmpty(c)
    \/ \E c \in Consumers, at \in ExcPoints : ConsumerRaises(c, at)
    \/ \E t \in Tasks : Timeout(t)
    \/ \E t \in Tasks : Resume(t)
    \/ \E t \in Tasks : Stop(t)
    \/ ShutdownCall

ExcSpec == PipeInit /\ [][ExcNext]_vars

\* The flag is true exactly while run() is inside its loop.
RunningInLoop ==
    \A t \in Tasks : running[t] <=> loc[t] \in {"loop", "put", "get", "is_empty"}

\* C35: a task's running flag is false before it is started, true while
\* run() is inside its loop (a wait inside put or get included) and false
\* once the loop has been left, by whichever exit: source exhausted, stop
\* signal, rejected put, shutdown-and-empty, or an exception of the source,
\* the sink or a callback; a task that has left its loop never runs again.
C35_RunningFlag ==
    [][ /\ RunningInLoop /\ RunningInLoop'
        /\ \A t \in Tasks :
              /\ (running[t] /\ ~running'[t]) => loc'[t] = "done"
              /\ loc[t] = "done" => (loc'[t] = "done" /\ ~running'[t])
      ]_vars

\* A consumer has left its loop through an exception (nothing else ends a
\* consumer of an open queue that was not stopped) and its flag is false,
\* while another task is still running.
C35_Witness ==
    /\ \E c \in Consumers :
          loc[c] = "done" /\ ~running[c] /\ ~stopEvent[c] /\ ~shutdown
    /\ \E t \in Tasks : running[t]

\* ---------------------------------------------------------------------------
\* Lock acquisition.  Every method of BlockingQueue and DestinationContainer
\* is followed through its acquisitions and releases of the object's lock:
\* a call wants the lock, holds it, may wait (put and get: Condition.wait
\* releases the lock and takes it again), calls what its body calls while
\* holding, and releases.  threading.Lock is not re-entrant: a thread that
\* wants a lock it holds never gets it.
\* ---------------------------------------------------------------------------

\* The methods whose body is a "with self._lock / self._not_full /
\* self._not_empty" block, per object.
LockingOps ==
    [queue |-> {"put", "get", "size", "is_empty", "is_full", "shutdown",
                "is_shutdown", "clear", "get_statistics"},
     sink  |-> {"append", "get_all", "size", "clear"}]

\* What a thread may call: a locking method, a method that calls a locking
\* method without holding anything (__len__, __repr__, __exit__), or one
\* iteration of Consumer.run (get returned an item, or did not) or of
\* Producer.run.
LockCalls ==
    {<<"queue", op>> : op \in LockingOps.queue \cup {"__len__", "__repr__", "__exit__"}}
    \cup {<<"sink", op>> : op \in LockingOps.sink \cup {"__len__"}}
    \cup {<<"consumer", "run: item">>, <<"consumer", "run: no item">>,
          <<"producer", "run">>}

\* The locking calls a call makes, in order, none of them inside another.
CallSequence(c) ==
    CASE c = <<"queue", "__len__">>  -> << <<"queue", "size">> >>
      [] c = <<"queue", "__repr__">> -> << <<"queue", "size">> >>
      [] c = <<"queue", "__exit__">> -> << <<"queue", "shutdown">> >>
      [] c = <<"sink", "__len__">>   -> << <<"sink", "size">> >>
      [] c = <<"consumer", "run: item">> ->
            << <<"queue", "get">>, <<"sink", "append">> >>
      [] c = <<"consumer", "run: no item">> ->
            << <<"queue", "get">>, <<"queue", "is_shutdown">>, <<"queue", "is_empty">> >>
      [] c = <<"producer", "run">>   -> << <<"queue", "put">> >>
      [] OTHER -> << c >>

\* get() stores the item in the sink before it releases the queue's lock.
HeldCalls_AppendInsideGet(obj, op) ==
    IF obj = "queue" /\ op = "get" THEN {<<"sink", "append">>} ELSE {}

\* The locking calls the body of a locking method makes while it holds the
\* lock: none in any of them (notify and notify_all take no lock).
HeldCalls(obj, op) == {}

LockOf(obj) == IF obj = "queue" THEN qLock ELSE sLock

Want(t, c, todo, outer) ==
    [at |-> "wants", obj |-> c[1], op |-> c[2], todo |-> todo, outer |-> outer,
     made |-> FALSE]

\* A thread calls a method.
LockCall(t, c) ==
    /\ lk[t].at = "idle"
    /\ lk' = [lk EXCEPT ![t] = Want(t, Head(CallSequence(c)), Tail(CallSequence(c)), <<>>)]
    /\ UNCHANGED <<qLock, sLock>>

\* Lock.acquire: the lock is free.
LockAcquire(t) ==
    /\ lk[t].at = "wants"
    /\ LockOf(lk[t].obj) = <<>>
    /\ IF lk[t].obj = "queue"
       THEN qLock' = <<t>> /\ UNCHANGED sLock
       ELSE sLock' = <<t>> /\ UNCHANGED qLock
    /\ lk' = [lk EXCEPT ![t].at = "holds"]

\* Condition.wait inside put or get: the lock is released.
LockWait(t) ==
    /\ lk[t].at = "holds"
    /\ lk[t].obj = "queue" /\ lk[t].op \in {"put", "get"}
    /\ qLock' = <<>>
    /\ lk' = [lk EXCEPT ![t].at = "waiting"]
    /\ UNCHANGED sLock

\* Condition.wait returns (notify or timeout): the lock is wanted again.
LockWake(t) ==
    /\ lk[t].at = "waiting"
    /\ lk' = [lk EXCEPT ![t].at = "wants"]
    /\ UNCHANGED <<qLock, sLock>>

\* The body of the with block: it makes the locking calls it makes while
\* holding the lock, if any; at its end the lock is released and the thread
\* goes on with the body that called, with its next call, or returns.
LockRelease(t) ==
    /\ lk[t].at = "holds"
    /\ IF HeldCalls(lk[t].obj, lk[t].op) # {} /\ ~lk[t].made /\ lk[t].outer = <<>>
       THEN /\ \E c \in HeldCalls(lk[t].obj, lk[t].op) :
                  lk' = [lk EXCEPT ![t] =
                            Want(t, c, lk[t].todo, << <<lk[t].obj, lk[t].op>> >>)]
            /\ UNCHANGED <<qLock, sLock>>
       ELSE /\ IF lk[t].obj = "queue"
               THEN qLock' = <<>> /\ UNCHANGED sLock
               ELSE sLock' = <<>> /\ UNCHANGED qLock
            /\ lk' = [lk EXCEPT ![t] =
                        IF lk[t].outer # <<>>
                        THEN [at |-> "holds", obj |-> lk[t].outer[1][1],
                              op |-> lk[t].outer[1][2], todo |-> lk[t].todo,
                              outer |-> <<>>, made |-> TRUE]
                        ELSE IF lk[t].todo # <<>>
                        THEN Want(t, Head(lk[t].todo), Tail(lk[t].todo), <<>>)
                        ELSE NoLockCall]

LockFrame ==
    /\ ret' = NoRet
    /\ UNCHANGED <<queueVars, waitVars, qs, call, histVars, loc, running, stopEvent,
                   srcPos, produced, consumed, dest, res, ctimeout, sinkVars>>

LockNext ==
    \/ \E t \in Callers, c \in LockCalls : LockCall(t, c) /\ LockFrame
    \/ \E t \in Callers : LockAcquire(t) /\ LockFrame
    \/ \E t \in Callers : LockWait(t) /\ LockFrame
    \/ \E t \in Callers : LockWake(t) /\ LockFrame
    \/ \E t \in Callers : LockRelease(t) /\ LockFrame

LockSpec == Init /\ [][LockNext]_vars

\* C36: no thread holds the queue's lock and the sink's lock at the same
\* time; no thread wants a lock it holds; and whenever a thread wants a lock
\* that is taken, the thread holding it is inside its critical section and
\* wants no lock itself, so it will release: no set of threads waits for
\* locks in a cycle.
C36_NoNestedLocking ==
    \A t \in Callers :
        /\ ~(qLock = <<t>> /\ sLock = <<t>>)
        /\ lk[t].at = "wants" =>
              /\ LockOf(lk[t].obj) # <<t>>
              /\ qLock # <<t>> /\ sLock # <<t>>
              /\ LockOf(lk[t].obj) # <<>> =>
                    \E u \in Callers \ {t} :
                        LockOf(lk[t].obj) = <<u>> /\ lk[u].at = "holds"

\* A consumer thread is appending to the sink, holding the sink's lock and
\* not the queue's, while the other thread holds the queue's lock.
C36_Witness ==
    \E t, u \in Callers :
        /\ t # u
        /\ sLock = <<t>> /\ lk[t].obj = "sink" /\ lk[t].op = "append"
        /\ qLock = <<u>> /\ lk[u].at = "holds"

\* ---------------------------------------------------------------------------
\* Lost wake-ups.
\* ---------------------------------------------------------------------------

\* The threads asleep inside get()'s wait, and the threads a notify has
\* released from it that have not yet taken the lock again.
AsleepInGet  == {t \in Threads : qs[t] = "waiting" /\ call[t].op = "get"}
NotifiedInGet == {t \in Threads : qs[t] = "notified" /\ call[t].op = "get"}

\* C37: in every reachable state where the buffer holds an item and the
\* queue is not shut down, either no thread is asleep inside get() or a
\* thread inside get() has been notified and is on its way to take an item.
C37_NoLostWakeup ==
    (queue # <<>> /\ ~shutdown) => (AsleepInGet = {} \/ NotifiedInGet # {})

\* ---------------------------------------------------------------------------
\* The counters.
\* ---------------------------------------------------------------------------

\* The items counted as added that are neither counted as removed nor in
\* the buffer.
Unaccounted == added - removed - Len(queue)

\* C38: as long as clear() has not been called, total_items_added minus
\* total_items_removed is the length of the buffer and total_items_removed
\* is at most total_items_added; neither counter ever decreases.
C38_CountersMatchBuffer ==
    [][ /\ ~cleared' => (added' - removed' = Len(queue') /\ removed' <= added')
        /\ added' >= added
        /\ removed' >= removed
      ]_vars

\* clear() was never called; items were added and removed, a get timed out
\* and the buffer holds an item.
C38_Witness ==
    /\ ~cleared
    /\ added >= 2 /\ removed >= 1 /\ queue # <<>>
    /\ ret.op = "get" /\ ~ret.ok /\ ret.tmo = "timed"

\* C39: clear() changes none of the four counters, so the items it drops
\* are counted as added and never as removed: total_items_added minus
\* total_items_removed exceeds the size by the number of items dropped, and
\* by exactly that from then on, since no other step changes the
\* difference; a get returns only the head of the buffer as it is then, so
\* no dropped item reaches a consumer.
C39_ClearKeepsCounters ==
    [][ /\ ret'.op = "clear" =>
              /\ UNCHANGED <<added, removed, blockedPuts, blockedGets>>
              /\ queue' = <<>>
              /\ Unaccounted' = Unaccounted + Len(queue)
        /\ ret'.op # "clear" => Unaccounted' = Unaccounted
        /\ (ret'.op = "get" /\ ret'.ok) =>
              /\ queue # <<>> /\ ret'.item = Head(queue)
              /\ removed' = removed + 1
      ]_vars

\* clear() has just dropped a full buffer of more than one item: the
\* counters differ by that number and the size is 0.
C39_Witness ==
    /\ ret.op = "clear"
    /\ queue = <<>>
    /\ capacity >= 2 /\ added - removed = capacity /\ Unaccounted = capacity

\* ---------------------------------------------------------------------------
\* The item of a rejected put.
\* ---------------------------------------------------------------------------

InSeq(x, s) == \E i \in DOMAIN s : s[i] = x

\* Producer p has terminated having read one item more than it counted, and
\* that item is in neither the buffer nor a destination.
LostOne(p) ==
    /\ loc[p] = "done"
    /\ srcPos[p] = produced[p] + 1
    /\ LET x == Source(p)[srcPos[p]] IN
          /\ ~InSeq(x, queue)
          /\ ~InSeq(x, putLog[p])
          /\ \A c \in Consumers : ~InSeq(x, dest[c]) /\ res[c].item # x

\* C40: a producer whose put returned False because the queue is shut down
\* terminates without counting the item: it has then read exactly one item
\* more from its source than items_produced says, and that item is not in the
\* buffer and not in any destination, then and ever after.
C40_RejectedItemDropped ==
    [][ \A p \in Producers :
          /\ (loc[p] = "put" /\ qs[p] = "out" /\ ~res[p].ok /\ ProducerAfterPut(p)) =>
                /\ shutdown
                /\ produced'[p] = produced[p]
                /\ LostOne(p)'
          /\ LostOne(p) => LostOne(p)'
      ]_vars

\* The queue was shut down while both producers still had items to put;
\* each has attempted a put since, and each has lost one item: everything
\* has terminated and the destinations hold two items fewer than were read.
C40_Witness ==
    /\ shutdown /\ AllDone /\ NoStop
    /\ Cardinality(Present(Producers)) = 2
    /\ \A p \in Present(Producers) : LostOne(p)
    /\ queue = <<>>

====
